---- MODULE Spec2Model ----
(***************************************************************************)
(* Model of golang-gcs-writer-test-01 (src/main.go): an HTTP service that, *)
(* on POST /, spawns one goroutine per requested object, each writing one  *)
(* random object to a GCS bucket under a shared 60 s deadline, waits for   *)
(* all of them with a WaitGroup, drains a buffered error channel and       *)
(* answers with a summary.                                                 *)
(*                                                                         *)
(* The storage client (cloud.google.com/go/storage) is an external         *)
(* collaborator.  Each of its blocking calls (Write, Close) is modelled as *)
(* a call that is entered by one action and left by another.  While the    *)
(* goroutine is in the call the backend may answer, with success or with   *)
(* an error, or stay silent; once the context of the request is done the   *)
(* call can also return the context's error.                               *)
(***************************************************************************)
EXTENDS Integers, Sequences, FiniteSets, TLC

(***************************************************************************)
(* Bounds of the model.                                                    *)
(***************************************************************************)
\* Largest "number" a request of the model asks for.
MaxCount == 2
\* Number of handler invocations (HTTP requests) the model has room for.
NumReqs == 2
\* Seconds the clock advances in one Tick.
TickStep == 40

(***************************************************************************)
(* Program constants.                                                      *)
(***************************************************************************)
\* time.Second*60 of context.WithTimeout
TimeoutSeconds == 60
StatusOK == 200
StatusBadRequest == 400
StatusMethodNotAllowed == 405
StatusInternalServerError == 500
DefaultPort == "8080"

Reqs == 1..NumReqs
Tasks == 1..MaxCount
\* fmt.Sprintf("%x", hashBytes) of the 16 zero bytes of make([]byte, 16).
ZeroHash == "00000000000000000000000000000000"
\* crypto/rand.Read in a process: the random source of the system can be read
\* ("ok"); it cannot, and Read returns an error, as the releases of Go before
\* 1.24 do ("error"); it cannot, and Read ends the program with a fatal error,
\* as the releases from 1.24 on do ("fatal").  The source does not name the
\* release it is built with.
RandReads == {"ok", "error", "fatal"}
Methods == {"POST", "GET", "PUT"}

(***************************************************************************)
(* Request bodies.  A body is either not JSON at all, or a JSON value:     *)
(* null, an array, or an object whose "number" member is absent, null, a   *)
(* string, a fraction, an integer outside int64, or an integer.            *)
(***************************************************************************)
Bodies ==
    {[kind |-> "syntax", member |-> "none", int |-> 0],
     [kind |-> "null", member |-> "none", int |-> 0],
     [kind |-> "array", member |-> "none", int |-> 0],
     [kind |-> "object", member |-> "absent", int |-> 0],
     [kind |-> "object", member |-> "null", int |-> 0],
     [kind |-> "object", member |-> "string", int |-> 0],
     [kind |-> "object", member |-> "fraction", int |-> 0],
     [kind |-> "object", member |-> "overflow", int |-> 0]}
    \cup {[kind |-> "object", member |-> "int", int |-> n] : n \in -1..MaxCount}

\* json.NewDecoder(r.Body).Decode(&payload) into Payload{Number int}:
\* the error it returns and the Number it leaves in the payload.
Decode(body) ==
    CASE body.kind = "syntax" -> [err |-> TRUE, Number |-> 0]
      [] body.kind = "null" -> [err |-> FALSE, Number |-> 0]
      [] body.kind = "array" -> [err |-> TRUE, Number |-> 0]
      [] body.member \in {"absent", "null"} -> [err |-> FALSE, Number |-> 0]
      [] body.member \in {"string", "fraction", "overflow"} -> [err |-> TRUE, Number |-> 0]
      [] OTHER -> [err |-> FALSE, Number |-> body.int]

\* Variant of MethodNotPost: PUT passes the check as well.
MethodNotPostNorPut(m) == m \notin {"POST", "PUT"}

\* r.Method != http.MethodPost
MethodNotPost(m) == m # "POST"

\* Variant of NumberNotPositive: zero passes the check.
NumberNegative(n) == n < 0

\* payload.Number <= 0
NumberNotPositive(n) == n <= 0

\* The requests a client can send, and what the clients send in a run of the
\* model: one request of any kind, or two well-formed POSTs that together ask
\* for at most MaxCount objects.
Requests == [method : Methods, body : Bodies]
Post(n) == [method |-> "POST", body |-> [kind |-> "object", member |-> "int", int |-> n]]
OneRequest == {<<q>> : q \in Requests}
TwoPosts ==
    {<<Post(c[1]), Post(c[2])>> :
        c \in {d \in (1..MaxCount) \X (1..MaxCount) : d[1] + d[2] <= MaxCount}}

VARIABLES
    \* main()
    mpc,          \* position of main: "load", "client", "bucket", "port", "listen", "serving", "fatal"
    env,          \* the process environment: GCS_BUCKET_NAME and PORT
    gcsClient,    \* "nil" or "client"
    bucketName,   \* main's bucketName
    port,         \* main's port
    fatal,        \* which log.Fatal ended the process, "" when none
    \* the world
    now,          \* the clock, in seconds
    inbox,        \* the requests the clients will still send, in order
    randRead,     \* what rand.Read does in this process: one of RandReads
    exited,       \* the runtime ended the process in rand.Read
    \* handleRequest, one invocation per r \in Reqs
    hpc,          \* position of the handler
    req,          \* the request: method and body
    Number,       \* payload.Number
    ctxDeadline,  \* deadline of ctx, -1 before ctx is made
    cancelled,    \* cancel() was called
    startTime,    \* startTime
    i,            \* loop variable of the spawning loop
    wg,           \* counter of the WaitGroup
    errs,         \* content of the channel errs
    errsCap,      \* capacity of errs
    errsClosed,   \* close(errs) was called
    timeTaken,    \* timeTaken
    errorMessages, \* errorMessages
    resp,         \* what was written to the ResponseWriter
    \* the goroutines, one per r \in Reqs and t \in Tasks
    tpc,          \* position of the goroutine
    tkey,         \* objectKey
    outcome,      \* how the goroutine ended: success, or the failure it reported
    \* history
    late,         \* the goroutines that were running when the deadline of ctx passed
    crashed,      \* a goroutine sent on the closed channel (panic)
    \* the backend
    stored,       \* the bucket holds the object the goroutine uploaded
    \* history of the calls of each goroutine
    sent,         \* number of its sends on errs
    opened,       \* number of its NewWriter calls
    closes,       \* number of its obj.Close() calls
    arrivals      \* the errors sent on errs, in the order of the sends

randVars == <<randRead, exited>>
mainVars == <<mpc, env, gcsClient, bucketName, port, fatal>>
handlerVars == <<hpc, req, Number, ctxDeadline, cancelled, startTime, i, wg, errs,
                 errsCap, errsClosed, timeTaken, errorMessages, resp>>
taskVars == <<tpc, tkey, outcome>>
logVars == <<stored, sent, opened, closes, arrivals>>
vars == <<mainVars, now, inbox, randVars, handlerVars, taskVars, late, crashed, logVars>>

\* An environment variable that is not set (os.Getenv returns "" for it).
Unset == "<unset>"
Getenv(e, k) == IF e[k] = Unset THEN "" ELSE e[k]

\* The environments the process can be started in, and the .env files
\* godotenv.Load can find ("<unset>": the file does not name the variable).
BucketValues == {Unset, "", "my-bucket"}
PortValues == {Unset, "9090"}
Envs == [GCS_BUCKET_NAME : BucketValues, PORT : PortValues]

\* godotenv.Load: a variable of the file is set unless the environment has it.
LoadInto(e, file) == [k \in DOMAIN e |-> IF e[k] = Unset THEN file[k] ELSE e[k]]

NoKey == <<>>
NoOutcome == [kind |-> "none", stage |-> "", key |-> NoKey, cause |-> ""]
NoResp == [status |-> 0, summary |-> FALSE, objects_written |-> 0,
           time_taken |-> 0, errors |-> <<>>]

Init ==
    /\ mpc = "load"
    /\ env \in Envs
    /\ gcsClient = "nil"
    /\ bucketName = ""
    /\ port = ""
    /\ fatal = ""
    /\ now = 0
    /\ inbox \in OneRequest
    /\ randRead \in RandReads
    /\ exited = FALSE
    /\ hpc = [r \in Reqs |-> "idle"]
    /\ req = [r \in Reqs |-> [method |-> "", body |-> [kind |-> "", member |-> "", int |-> 0]]]
    /\ Number = [r \in Reqs |-> 0]
    /\ ctxDeadline = [r \in Reqs |-> -1]
    /\ cancelled = [r \in Reqs |-> FALSE]
    /\ startTime = [r \in Reqs |-> -1]
    /\ i = [r \in Reqs |-> 0]
    /\ wg = [r \in Reqs |-> 0]
    /\ errs = [r \in Reqs |-> <<>>]
    /\ errsCap = [r \in Reqs |-> -1]
    /\ errsClosed = [r \in Reqs |-> FALSE]
    /\ timeTaken = [r \in Reqs |-> -1]
    /\ errorMessages = [r \in Reqs |-> <<>>]
    /\ resp = [r \in Reqs |-> NoResp]
    /\ tpc = [r \in Reqs |-> [t \in Tasks |-> "unspawned"]]
    /\ tkey = [r \in Reqs |-> [t \in Tasks |-> NoKey]]
    /\ outcome = [r \in Reqs |-> [t \in Tasks |-> NoOutcome]]
    /\ late = [r \in Reqs |-> {}]
    /\ crashed = FALSE
    /\ stored = [r \in Reqs |-> [t \in Tasks |-> FALSE]]
    /\ sent = [r \in Reqs |-> [t \in Tasks |-> 0]]
    /\ opened = [r \in Reqs |-> [t \in Tasks |-> 0]]
    /\ closes = [r \in Reqs |-> [t \in Tasks |-> 0]]
    /\ arrivals = [r \in Reqs |-> <<>>]

(***************************************************************************)
(* main()                                                                  *)
(***************************************************************************)
requestVars == <<inbox, randVars, handlerVars, taskVars, late, crashed, logVars>>

\* log.Fatal: the process exits.
Fatal(reason) ==
    /\ mpc' = "fatal"
    /\ fatal' = reason

\* godotenv.Load() and the check of its error.
LoadDotenv ==
    /\ mpc = "load"
    /\ \/ /\ Fatal("dotenv")
          /\ UNCHANGED env
       \/ /\ \E file \in Envs : env' = LoadInto(env, file)
          /\ mpc' = "client"
          /\ UNCHANGED fatal
    /\ UNCHANGED <<gcsClient, bucketName, port, now, requestVars>>

\* storage.NewClient(ctx) and the check of its error.
NewClient ==
    /\ mpc = "client"
    /\ \/ /\ Fatal("client")
          /\ UNCHANGED gcsClient
       \/ /\ gcsClient' = "client"
          /\ mpc' = "bucket"
          /\ UNCHANGED fatal
    /\ UNCHANGED <<env, bucketName, port, now, requestVars>>

\* Variant of BucketNameMissing: the name is compared with the wrong value.
BucketNameUnset(name) == name = Unset

\* bucketName == ""
BucketNameMissing(name) == name = ""

\* bucketName := os.Getenv("GCS_BUCKET_NAME"), its check, http.HandleFunc.
GetBucketName ==
    /\ mpc = "bucket"
    /\ bucketName' = Getenv(env, "GCS_BUCKET_NAME")
    /\ IF BucketNameMissing(bucketName')
       THEN Fatal("bucket")
       ELSE mpc' = "port" /\ UNCHANGED fatal
    /\ UNCHANGED <<env, gcsClient, port, now, requestVars>>

\* port := os.Getenv("PORT"); if port == "" { port = "8080" }
PortOf(e) == IF Getenv(e, "PORT") = "" THEN DefaultPort ELSE Getenv(e, "PORT")

GetPort ==
    /\ mpc = "port"
    /\ port' = PortOf(env)
    /\ mpc' = "listen"
    /\ UNCHANGED <<env, gcsClient, bucketName, fatal, now, requestVars>>

\* http.ListenAndServe: it serves, or fails at once (the port is taken).
ListenAndServe ==
    /\ mpc = "listen"
    /\ \/ Fatal("listen")
       \/ mpc' = "serving" /\ UNCHANGED fatal
    /\ UNCHANGED <<env, gcsClient, bucketName, port, now, requestVars>>

Main == LoadDotenv \/ NewClient \/ GetBucketName \/ GetPort \/ ListenAndServe

(***************************************************************************)
(* handleRequest: the checks of the request                                *)
(***************************************************************************)
mainAndClock == <<mainVars, now>>

\* The server calls the handler for the next request a client sends.
Arrives(r) ==
    /\ mpc = "serving"
    /\ ~crashed
    /\ ~exited
    /\ inbox # <<>>
    /\ hpc[r] = "idle"
    /\ \A q \in Reqs : q < r => hpc[q] # "idle"

\* http.Error(w, text, code); return
HttpError(code) == [NoResp EXCEPT !.status = code]

Rejected(r, m, body, code) ==
    /\ req' = [req EXCEPT ![r] = [method |-> m, body |-> body]]
    /\ resp' = [resp EXCEPT ![r] = HttpError(code)]
    /\ hpc' = [hpc EXCEPT ![r] = "responded"]
    /\ inbox' = Tail(inbox)
    /\ UNCHANGED <<mainAndClock, randVars, Number, ctxDeadline, cancelled, startTime, i, wg, errs,
                   errsCap, errsClosed, timeTaken, errorMessages, taskVars, late, logVars, crashed>>

\* The method is not POST.
RejectMethod(r) ==
    /\ Arrives(r)
    /\ LET m == Head(inbox).method
           body == Head(inbox).body
       IN
          /\ MethodNotPost(m)
          /\ Rejected(r, m, body, StatusMethodNotAllowed)

\* The body does not decode.
RejectBody(r) ==
    /\ Arrives(r)
    /\ LET m == Head(inbox).method
           body == Head(inbox).body
       IN
          /\ ~MethodNotPost(m)
          /\ Decode(body).err
          /\ Rejected(r, m, body, StatusBadRequest)

\* The number is not positive.
RejectNumber(r) ==
    /\ Arrives(r)
    /\ LET m == Head(inbox).method
           body == Head(inbox).body
       IN
          /\ ~MethodNotPost(m)
          /\ ~Decode(body).err
          /\ NumberNotPositive(Decode(body).Number)
          /\ Number' = [Number EXCEPT ![r] = Decode(body).Number]
          /\ req' = [req EXCEPT ![r] = [method |-> m, body |-> body]]
          /\ resp' = [resp EXCEPT ![r] = HttpError(StatusBadRequest)]
          /\ hpc' = [hpc EXCEPT ![r] = "responded"]
          /\ inbox' = Tail(inbox)
          /\ UNCHANGED <<mainAndClock, randVars, ctxDeadline, cancelled, startTime, i, wg, errs,
                         errsCap, errsClosed, timeTaken, errorMessages, taskVars, late, logVars,
                         crashed>>

\* context.WithTimeout(context.Background(), time.Second*60): its deadline.
DeadlineFrom(t) == t + TimeoutSeconds

\* Variant of ChanCapacity: one place too few.
ChanCapacityOneShort(n) == n - 1

\* make(chan error, payload.Number): its capacity.
ChanCapacity(n) == n

\* The request passes the checks: bucket handle, ctx, startTime, wg, errs.
Accept(r) ==
    /\ Arrives(r)
    /\ LET m == Head(inbox).method
           body == Head(inbox).body
       IN
          /\ ~MethodNotPost(m)
          /\ ~Decode(body).err
          /\ ~NumberNotPositive(Decode(body).Number)
          /\ Number' = [Number EXCEPT ![r] = Decode(body).Number]
          /\ req' = [req EXCEPT ![r] = [method |-> m, body |-> body]]
          /\ ctxDeadline' = [ctxDeadline EXCEPT ![r] = DeadlineFrom(now)]
          /\ startTime' = [startTime EXCEPT ![r] = now]
          /\ wg' = [wg EXCEPT ![r] = 0]
          /\ errs' = [errs EXCEPT ![r] = <<>>]
          /\ errsCap' = [errsCap EXCEPT ![r] = ChanCapacity(Decode(body).Number)]
          /\ i' = [i EXCEPT ![r] = 0]
          /\ hpc' = [hpc EXCEPT ![r] = "spawn"]
          /\ inbox' = Tail(inbox)
          /\ UNCHANGED <<mainAndClock, randVars, cancelled, errsClosed, timeTaken, errorMessages,
                         resp, taskVars, late, logVars, crashed>>

(***************************************************************************)
(* handleRequest: fan-out and fan-in                                       *)
(***************************************************************************)
\* The process is up: it serves and no goroutine has panicked.
Alive == mpc = "serving" /\ ~crashed /\ ~exited

\* Variant of CtxDone: ctx without a deadline (context.WithCancel).
CtxDoneByCancelOnly(r) == ctxDeadline[r] >= 0 /\ cancelled[r]

\* Variant of CtxDone: the deadline is one for all requests, that of the
\* request that was accepted first.
CtxDoneShared(r) ==
    /\ ctxDeadline[r] >= 0
    /\ \/ cancelled[r]
       \/ \E q \in Reqs : ctxDeadline[q] >= 0 /\ now >= ctxDeadline[q]

\* ctx.Done() is closed: the deadline has passed or cancel() was called.
CtxDone(r) == ctxDeadline[r] >= 0 /\ (cancelled[r] \/ now >= ctxDeadline[r])

\* One iteration of the loop: wg.Add(1); go func() {...}()
Spawn(r) ==
    /\ Alive
    /\ hpc[r] = "spawn"
    /\ i[r] < Number[r]
    /\ wg' = [wg EXCEPT ![r] = @ + 1]
    /\ tpc' = [tpc EXCEPT ![r][i[r] + 1] = "start"]
    /\ i' = [i EXCEPT ![r] = @ + 1]
    /\ UNCHANGED <<mainAndClock, inbox, randVars, hpc, req, Number, ctxDeadline, cancelled,
                   startTime, errs, errsCap, errsClosed, timeTaken, errorMessages, resp,
                   tkey, outcome, late, logVars, crashed>>

\* Variant of WaitReturns: the handler does not wait for the counter.
WaitReturnsAtOnce(r) == wg[r] >= 0

\* wg.Wait() returns: the counter is zero.
WaitReturns(r) == wg[r] = 0

\* The loop is over and wg.Wait() returns.
Wait(r) ==
    /\ Alive
    /\ hpc[r] = "spawn"
    /\ ~(i[r] < Number[r])
    /\ WaitReturns(r)
    /\ hpc' = [hpc EXCEPT ![r] = "close"]
    /\ UNCHANGED <<mainAndClock, inbox, randVars, req, Number, ctxDeadline, cancelled, startTime,
                   i, wg, errs, errsCap, errsClosed, timeTaken, errorMessages, resp,
                   taskVars, late, logVars, crashed>>

\* close(errs); timeTaken := time.Since(startTime)
CloseErrs(r) ==
    /\ Alive
    /\ hpc[r] = "close"
    /\ errsClosed' = [errsClosed EXCEPT ![r] = TRUE]
    /\ timeTaken' = [timeTaken EXCEPT ![r] = now - startTime[r]]
    /\ hpc' = [hpc EXCEPT ![r] = "collect"]
    /\ UNCHANGED <<mainAndClock, inbox, randVars, req, Number, ctxDeadline, cancelled, startTime,
                   i, wg, errs, errsCap, errorMessages, resp, taskVars, late, logVars, crashed>>

\* Variant of Collect: the elapsed time is taken again after each receive.
CollectStamping(r) ==
    /\ Alive
    /\ hpc[r] = "collect"
    /\ Len(errs[r]) > 0
    /\ errorMessages' = [errorMessages EXCEPT ![r] = Append(@, Head(errs[r]))]
    /\ errs' = [errs EXCEPT ![r] = Tail(@)]
    /\ timeTaken' = [timeTaken EXCEPT ![r] = now - startTime[r]]
    /\ UNCHANGED <<mainAndClock, inbox, randVars, hpc, req, Number, ctxDeadline, cancelled,
                   startTime, i, wg, errsCap, errsClosed, resp, taskVars,
                   late, logVars, crashed>>

\* One iteration of "for err := range errs": append(errorMessages, err.Error())
Collect(r) ==
    /\ Alive
    /\ hpc[r] = "collect"
    /\ Len(errs[r]) > 0
    /\ errorMessages' = [errorMessages EXCEPT ![r] = Append(@, Head(errs[r]))]
    /\ errs' = [errs EXCEPT ![r] = Tail(@)]
    /\ UNCHANGED <<mainAndClock, inbox, randVars, hpc, req, Number, ctxDeadline, cancelled,
                   startTime, i, wg, errsCap, errsClosed, timeTaken, resp, taskVars,
                   late, logVars, crashed>>

\* Variant of ObjectsWritten: the errors are not subtracted.
ObjectsWrittenAll(n, msgs) == n

\* ObjectsWritten: payload.Number - len(errorMessages)
ObjectsWritten(n, msgs) == n - Len(msgs)

\* Variants of StatusOf: a wrong comparison.
StatusOfAtLeastZero(msgs) == IF Len(msgs) >= 0 THEN StatusInternalServerError ELSE StatusOK
StatusOfMoreThanOne(msgs) == IF Len(msgs) > 1 THEN StatusInternalServerError ELSE StatusOK

\* The status: 500 if len(errorMessages) > 0, else 200.
StatusOf(msgs) == IF Len(msgs) > 0 THEN StatusInternalServerError ELSE StatusOK

\* Variant of Respond: when a goroutine failed, the objects of the request
\* are deleted from the bucket before the summary is written.
RespondWithRollback(r) ==
    /\ Alive
    /\ hpc[r] = "collect"
    /\ Len(errs[r]) = 0
    /\ errsClosed[r]
    /\ resp' = [resp EXCEPT ![r] =
                  [status |-> StatusOf(errorMessages[r]),
                   summary |-> TRUE,
                   objects_written |-> ObjectsWritten(Number[r], errorMessages[r]),
                   time_taken |-> timeTaken[r],
                   errors |-> errorMessages[r]]]
    /\ stored' = [stored EXCEPT ![r] =
                    IF Len(errorMessages[r]) > 0 THEN [t \in Tasks |-> FALSE] ELSE @]
    /\ cancelled' = [cancelled EXCEPT ![r] = TRUE]
    /\ hpc' = [hpc EXCEPT ![r] = "responded"]
    /\ UNCHANGED <<mainAndClock, inbox, randVars, req, Number, ctxDeadline, startTime, i, wg,
                   errs, errsCap, errsClosed, timeTaken, errorMessages, taskVars, late,
                   sent, opened, closes, arrivals, crashed>>

\* The range loop ends (errs is closed and empty); the response is built and
\* written; the handler returns and its deferred cancel() runs.
Respond(r) ==
    /\ Alive
    /\ hpc[r] = "collect"
    /\ Len(errs[r]) = 0
    /\ errsClosed[r]
    /\ resp' = [resp EXCEPT ![r] =
                  [status |-> StatusOf(errorMessages[r]),
                   summary |-> TRUE,
                   objects_written |-> ObjectsWritten(Number[r], errorMessages[r]),
                   time_taken |-> timeTaken[r],
                   errors |-> errorMessages[r]]]
    /\ cancelled' = [cancelled EXCEPT ![r] = TRUE]
    /\ hpc' = [hpc EXCEPT ![r] = "responded"]
    /\ UNCHANGED <<mainAndClock, inbox, randVars, req, Number, ctxDeadline, startTime, i, wg,
                   errs, errsCap, errsClosed, timeTaken, errorMessages, taskVars, late, logVars,
                   crashed>>

(***************************************************************************)
(* The goroutine of one object                                             *)
(***************************************************************************)
\* rand.Read(hashBytes) and fmt.Sprintf("%x", hashBytes) in the goroutine t of
\* request r, when rand.Read returns.  A read that works fills hashBytes with
\* 16 random bytes that no other read gives, named here by the goroutine that
\* drew them.  A read that returns an error leaves the zero bytes; the error
\* is not looked at and the key is made from them.
RandomHash(r, t) == IF randRead = "ok" THEN <<r, t>> ELSE ZeroHash

\* generateObjectKey(): "<timestamp>/<hex of 16 random bytes>".  The folder is
\* time.Now() to the second, here the second t of the clock at the call: keys
\* made in the same second share the folder, keys made in different seconds
\* differ whatever their random part.
generateObjectKey(t, hash) == <<t, hash>>

\* fmt.Errorf("failed to write to GCS object %s: %v", objectKey, err)
WriteError(key, err) == <<"failed to write to GCS object", key, err>>

\* fmt.Errorf("failed to close GCS object writer for %s: %v", objectKey, err)
CloseError(key, err) == <<"failed to close GCS object writer for", key, err>>

\* The errors a storage call of a goroutine of r can return now: an error of
\* the backend, and the error of ctx if ctx is done.
CallErrors(r) ==
    {"backend error"} \cup (IF CtxDone(r) THEN {"context deadline exceeded"} ELSE {})

\* Variant of ChanSend: a send that gives up when the buffer is not empty.
ChanSendOrDrop(ch, e) == IF Len(ch) > 0 THEN ch ELSE Append(ch, e)

\* Variant of ChanSend: the new element goes to the head of the buffer.
ChanSendFront(ch, e) == <<e>> \o ch

\* errs <- e on a channel that holds ch
ChanSend(ch, e) == Append(ch, e)

\* errs <- e: blocks while the buffer is full, panics if errs is closed.
SendErr(r, e) ==
    IF errsClosed[r]
    THEN crashed' = TRUE /\ UNCHANGED errs
    ELSE /\ Len(errs[r]) < errsCap[r]
         /\ errs' = [errs EXCEPT ![r] = ChanSend(@, e)]
         /\ UNCHANGED crashed

handlerRest == <<hpc, req, Number, ctxDeadline, cancelled, startTime, i, errsCap,
                 errsClosed, timeTaken, errorMessages, resp>>

\* The history of a send of goroutine t on errs.
Logged(r, t, e) ==
    /\ sent' = [sent EXCEPT ![r][t] = @ + 1]
    /\ arrivals' = [arrivals EXCEPT ![r] = Append(@, e)]

\* The goroutine starts: key, content, bucket.Object(key).NewWriter(ctx), and
\* it enters io.WriteString.
TaskBegin(r, t) ==
    /\ Alive
    /\ tpc[r][t] = "start"
    /\ randRead # "fatal"
    /\ tkey' = [tkey EXCEPT ![r][t] = generateObjectKey(now, RandomHash(r, t))]
    /\ tpc' = [tpc EXCEPT ![r][t] = "write"]
    /\ opened' = [opened EXCEPT ![r][t] = @ + 1]
    /\ UNCHANGED <<mainAndClock, inbox, randVars, handlerRest, wg, errs, outcome, late, crashed,
                   stored, sent, closes, arrivals>>

\* The goroutine starts and rand.Read in generateObjectKey() ends the program:
\* no key, no upload, and every handler and goroutine of the process ends
\* where it is.
RandFatal(r, t) ==
    /\ Alive
    /\ tpc[r][t] = "start"
    /\ randRead = "fatal"
    /\ exited' = TRUE
    /\ UNCHANGED <<mainAndClock, inbox, randRead, handlerVars, taskVars, late, crashed, logVars>>

\* io.WriteString returns nil; the goroutine enters obj.Close().
WriteOk(r, t) ==
    /\ Alive
    /\ tpc[r][t] = "write"
    /\ tpc' = [tpc EXCEPT ![r][t] = "close"]
    /\ closes' = [closes EXCEPT ![r][t] = @ + 1]
    /\ UNCHANGED <<mainAndClock, inbox, randVars, handlerRest, wg, errs, tkey, outcome, late,
                   crashed, stored, sent, opened, arrivals>>

\* Variant of WriteFail: the failing goroutine cancels ctx for its siblings.
WriteFailCancelling(r, t) ==
    /\ Alive
    /\ tpc[r][t] = "write"
    /\ \E err \in CallErrors(r) :
          /\ SendErr(r, WriteError(tkey[r][t], err))
          /\ Logged(r, t, WriteError(tkey[r][t], err))
          /\ outcome' = [outcome EXCEPT ![r][t] =
                           [kind |-> "failure", stage |-> "write",
                            key |-> tkey[r][t], cause |-> err]]
    /\ tpc' = [tpc EXCEPT ![r][t] = "bclose"]
    /\ closes' = [closes EXCEPT ![r][t] = @ + 1]
    /\ cancelled' = [cancelled EXCEPT ![r] = TRUE]
    /\ UNCHANGED <<mainAndClock, inbox, randVars, hpc, req, Number, ctxDeadline, startTime, i,
                   errsCap, errsClosed, timeTaken, errorMessages, resp, wg, tkey, late,
                   stored, opened>>

\* Variant of WriteFail: the stream is not closed after the failed write.
WriteFailLeavingOpen(r, t) ==
    /\ Alive
    /\ tpc[r][t] = "write"
    /\ \E err \in CallErrors(r) :
          /\ SendErr(r, WriteError(tkey[r][t], err))
          /\ Logged(r, t, WriteError(tkey[r][t], err))
          /\ outcome' = [outcome EXCEPT ![r][t] =
                           [kind |-> "failure", stage |-> "write",
                            key |-> tkey[r][t], cause |-> err]]
    /\ wg' = [wg EXCEPT ![r] = @ - 1]
    /\ tpc' = [tpc EXCEPT ![r][t] = "done"]
    /\ UNCHANGED <<mainAndClock, inbox, randVars, handlerRest, tkey, late, stored, opened, closes>>

\* io.WriteString returns an error: the goroutine sends it and enters the
\* best-effort obj.Close().
WriteFail(r, t) ==
    /\ Alive
    /\ tpc[r][t] = "write"
    /\ \E err \in CallErrors(r) :
          /\ SendErr(r, WriteError(tkey[r][t], err))
          /\ Logged(r, t, WriteError(tkey[r][t], err))
          /\ outcome' = [outcome EXCEPT ![r][t] =
                           [kind |-> "failure", stage |-> "write",
                            key |-> tkey[r][t], cause |-> err]]
    /\ tpc' = [tpc EXCEPT ![r][t] = "bclose"]
    /\ closes' = [closes EXCEPT ![r][t] = @ + 1]
    /\ UNCHANGED <<mainAndClock, inbox, randVars, handlerRest, wg, tkey, late, stored, opened>>

\* What the best-effort obj.Close() can return: nil, or one of the errors of
\* a storage call.
BestEffortResults(r) == {"nil"} \cup CallErrors(r)

\* Variant of BestEffortClose: an error of the close is sent on errs as well.
BestEffortCloseReporting(r, t) ==
    /\ Alive
    /\ tpc[r][t] = "bclose"
    /\ \E res \in BestEffortResults(r) :
          IF res = "nil"
          THEN UNCHANGED <<errs, crashed, sent, arrivals>>
          ELSE /\ SendErr(r, CloseError(tkey[r][t], res))
               /\ Logged(r, t, CloseError(tkey[r][t], res))
    /\ wg' = [wg EXCEPT ![r] = @ - 1]
    /\ tpc' = [tpc EXCEPT ![r][t] = "done"]
    /\ UNCHANGED <<mainAndClock, inbox, randVars, handlerRest, tkey, outcome, late, stored,
                   opened, closes>>

\* The best-effort obj.Close() returns, its result is dropped; return; wg.Done().
BestEffortClose(r, t) ==
    /\ Alive
    /\ tpc[r][t] = "bclose"
    /\ \E res \in BestEffortResults(r) : TRUE
    /\ wg' = [wg EXCEPT ![r] = @ - 1]
    /\ tpc' = [tpc EXCEPT ![r][t] = "done"]
    /\ UNCHANGED <<mainAndClock, inbox, randVars, handlerRest, errs, tkey, outcome, late, logVars,
                   crashed>>

\* obj.Close() returns nil: the upload is committed, which the backend does
\* only while ctx is not done.
CloseOk(r, t) ==
    /\ Alive
    /\ tpc[r][t] = "close"
    /\ ~CtxDone(r)
    /\ outcome' = [outcome EXCEPT ![r][t] =
                     [kind |-> "success", stage |-> "", key |-> tkey[r][t], cause |-> ""]]
    /\ stored' = [stored EXCEPT ![r][t] = TRUE]
    /\ tpc' = [tpc EXCEPT ![r][t] = "log"]
    /\ UNCHANGED <<mainAndClock, inbox, randVars, handlerRest, wg, errs, tkey, late,
                   crashed, sent, opened, closes, arrivals>>

\* Variant of CloseFail: an error of ctx is not reported.
CloseFailQuietOnCtx(r, t) ==
    /\ Alive
    /\ tpc[r][t] = "close"
    /\ \E err \in CallErrors(r), committed \in BOOLEAN :
          /\ IF err = "context deadline exceeded"
             THEN UNCHANGED <<errs, crashed, sent, arrivals>>
             ELSE /\ SendErr(r, CloseError(tkey[r][t], err))
                  /\ Logged(r, t, CloseError(tkey[r][t], err))
          /\ outcome' = [outcome EXCEPT ![r][t] =
                           [kind |-> "failure", stage |-> "close",
                            key |-> tkey[r][t], cause |-> err]]
          /\ stored' = [stored EXCEPT ![r][t] = committed]
    /\ wg' = [wg EXCEPT ![r] = @ - 1]
    /\ tpc' = [tpc EXCEPT ![r][t] = "done"]
    /\ UNCHANGED <<mainAndClock, inbox, randVars, handlerRest, tkey, late, opened, closes>>

\* Variant of CloseFail: the error of obj.Close() is not checked, the
\* goroutine goes on as after a success.
CloseFailUnchecked(r, t) ==
    /\ Alive
    /\ tpc[r][t] = "close"
    /\ \E err \in CallErrors(r), committed \in BOOLEAN :
          /\ outcome' = [outcome EXCEPT ![r][t] =
                           [kind |-> "failure", stage |-> "close",
                            key |-> tkey[r][t], cause |-> err]]
          /\ stored' = [stored EXCEPT ![r][t] = committed]
    /\ tpc' = [tpc EXCEPT ![r][t] = "log"]
    /\ UNCHANGED <<mainAndClock, inbox, randVars, handlerRest, wg, errs, tkey, late, crashed,
                   sent, opened, closes, arrivals>>

\* obj.Close() returns an error: the goroutine sends it; return; wg.Done().
\* The backend may have committed the object all the same.
CloseFail(r, t) ==
    /\ Alive
    /\ tpc[r][t] = "close"
    /\ \E err \in CallErrors(r), committed \in BOOLEAN :
          /\ SendErr(r, CloseError(tkey[r][t], err))
          /\ Logged(r, t, CloseError(tkey[r][t], err))
          /\ outcome' = [outcome EXCEPT ![r][t] =
                           [kind |-> "failure", stage |-> "close",
                            key |-> tkey[r][t], cause |-> err]]
          /\ stored' = [stored EXCEPT ![r][t] = committed]
    /\ wg' = [wg EXCEPT ![r] = @ - 1]
    /\ tpc' = [tpc EXCEPT ![r][t] = "done"]
    /\ UNCHANGED <<mainAndClock, inbox, randVars, handlerRest, tkey, late, opened, closes>>

\* log.Printf("Successfully created object: ..."); the function ends; wg.Done().
TaskReturn(r, t) ==
    /\ Alive
    /\ tpc[r][t] = "log"
    /\ wg' = [wg EXCEPT ![r] = @ - 1]
    /\ tpc' = [tpc EXCEPT ![r][t] = "done"]
    /\ UNCHANGED <<mainAndClock, inbox, randVars, handlerRest, errs, tkey, outcome, late,
                   logVars, crashed>>

(***************************************************************************)
(* The clock                                                               *)
(***************************************************************************)
\* The handler of r runs and the deadline of its ctx is still to come.
Pending(r) ==
    /\ hpc[r] \notin {"idle", "responded"}
    /\ ctxDeadline[r] >= 0
    /\ now < ctxDeadline[r]

\* Time passes.  The model follows the clock while the deadline of a running
\* handler is still to come; nothing it does depends on the time that passes
\* otherwise.  late records, for every ctx whose deadline passes in this
\* step, the goroutines that are running at that moment.
Tick ==
    /\ ~exited
    /\ \E r \in Reqs : Pending(r)
    /\ now' = now + TickStep
    /\ late' = [r \in Reqs |->
                  IF ctxDeadline[r] >= 0 /\ now < ctxDeadline[r] /\ ctxDeadline[r] <= now'
                  THEN {t \in Tasks : tpc[r][t] \notin {"unspawned", "done"}}
                  ELSE late[r]]
    /\ UNCHANGED <<mainVars, inbox, randVars, handlerVars, taskVars, crashed, logVars>>

Handler(r) ==
    \/ RejectMethod(r) \/ RejectBody(r) \/ RejectNumber(r) \/ Accept(r)
    \/ Spawn(r) \/ Wait(r) \/ CloseErrs(r) \/ Collect(r) \/ Respond(r)

Task(r, t) ==
    \/ TaskBegin(r, t) \/ WriteOk(r, t) \/ WriteFail(r, t) \/ BestEffortClose(r, t)
    \/ CloseOk(r, t) \/ CloseFail(r, t) \/ TaskReturn(r, t)

Next ==
    \/ Main
    \/ Tick
    \/ \E r \in Reqs : Handler(r)
    \/ \E r \in Reqs, t \in Tasks : Task(r, t) \/ RandFatal(r, t)

Spec == Init /\ [][Next]_vars

(***************************************************************************)
(* Fairness: the scheduler runs every goroutine that can take a step, the  *)
(* handler's own goroutine included, and time passes.  A storage call is   *)
(* bound to return only once the context of its request is done; before    *)
(* that the backend may leave it unanswered.  The arrival of a request and *)
(* the steps of main are not forced.  What main does with its              *)
(* environment is the same for every request it serves later, so the       *)
(* behaviours start from one environment that has both variables.  A       *)
(* process that the runtime has ended schedules no goroutine: the          *)
(* behaviours are those of a process whose rand.Read returns, with the     *)
(* random bytes or with an error.                                          *)
(***************************************************************************)
\* The steps of a goroutine that are its own, outside the storage calls.
TaskStep(r, t) == TaskBegin(r, t) \/ TaskReturn(r, t)

HandlerRun(r) == Spawn(r) \/ Wait(r) \/ CloseErrs(r) \/ Collect(r) \/ Respond(r)

\* The process is started with both variables in its environment, and its
\* rand.Read returns.
ConfiguredInit ==
    /\ Init
    /\ env = [GCS_BUCKET_NAME |-> "my-bucket", PORT |-> "9090"]
    /\ randRead # "fatal"

\* The steps of a process that rand.Read does not end.
NextRunning ==
    \/ Main
    \/ Tick
    \/ \E r \in Reqs : Handler(r)
    \/ \E r \in Reqs, t \in Tasks : Task(r, t)

FairSpec ==
    /\ ConfiguredInit
    /\ [][NextRunning]_vars
    /\ WF_vars(Tick)
    /\ \A r \in Reqs : WF_vars(HandlerRun(r))
    /\ \A r \in Reqs : \A t \in Tasks : WF_vars(TaskStep(r, t))
    /\ \A r \in Reqs : \A t \in Tasks : WF_vars(CtxDone(r) /\ Task(r, t))

\* Two requests arrive while the server runs, so that their handlers and
\* goroutines interleave.
InitTwo ==
    /\ mpc = "load"
    /\ env = [GCS_BUCKET_NAME |-> "my-bucket", PORT |-> "9090"]
    /\ gcsClient = "nil"
    /\ bucketName = ""
    /\ port = ""
    /\ fatal = ""
    /\ now = 0
    /\ inbox \in TwoPosts
    /\ randRead \in RandReads
    /\ exited = FALSE
    /\ hpc = [r \in Reqs |-> "idle"]
    /\ req = [r \in Reqs |-> [method |-> "", body |-> [kind |-> "", member |-> "", int |-> 0]]]
    /\ Number = [r \in Reqs |-> 0]
    /\ ctxDeadline = [r \in Reqs |-> -1]
    /\ cancelled = [r \in Reqs |-> FALSE]
    /\ startTime = [r \in Reqs |-> -1]
    /\ i = [r \in Reqs |-> 0]
    /\ wg = [r \in Reqs |-> 0]
    /\ errs = [r \in Reqs |-> <<>>]
    /\ errsCap = [r \in Reqs |-> -1]
    /\ errsClosed = [r \in Reqs |-> FALSE]
    /\ timeTaken = [r \in Reqs |-> -1]
    /\ errorMessages = [r \in Reqs |-> <<>>]
    /\ resp = [r \in Reqs |-> NoResp]
    /\ tpc = [r \in Reqs |-> [t \in Tasks |-> "unspawned"]]
    /\ tkey = [r \in Reqs |-> [t \in Tasks |-> NoKey]]
    /\ outcome = [r \in Reqs |-> [t \in Tasks |-> NoOutcome]]
    /\ late = [r \in Reqs |-> {}]
    /\ crashed = FALSE
    /\ stored = [r \in Reqs |-> [t \in Tasks |-> FALSE]]
    /\ sent = [r \in Reqs |-> [t \in Tasks |-> 0]]
    /\ opened = [r \in Reqs |-> [t \in Tasks |-> 0]]
    /\ closes = [r \in Reqs |-> [t \in Tasks |-> 0]]
    /\ arrivals = [r \in Reqs |-> <<>>]

\* Both requests are well-formed POSTs: the steps are those of Next without
\* the rejections.
NextTwo ==
    \/ Main
    \/ Tick
    \/ \E r \in Reqs : Accept(r) \/ HandlerRun(r)
    \/ \E r \in Reqs, t \in Tasks : Task(r, t) \/ RandFatal(r, t)

SpecTwo == InitTwo /\ [][NextTwo]_vars

(***************************************************************************)
(* Vocabulary of the properties                                            *)
(***************************************************************************)
\* The request handler r was called with passes the three checks.
AcceptedReq(r) ==
    /\ hpc[r] # "idle"
    /\ req[r].method = "POST"
    /\ ~Decode(req[r].body).err
    /\ Decode(req[r].body).Number > 0

\* The count the request asks for.
CountOf(r) == Decode(req[r].body).Number

\* The summary was written for r.
Summarised(r) == hpc[r] = "responded" /\ resp[r].summary

\* The goroutines the request asks for, those that failed, those that succeeded.
TasksOf(r) == {t \in Tasks : t <= CountOf(r)}
FailedTasks(r) == {t \in TasksOf(r) : outcome[r][t].kind = "failure"}
SucceededTasks(r) == {t \in TasksOf(r) : outcome[r][t].kind = "success"}

\* The text a failed goroutine reported.
ReportOf(o) ==
    IF o.stage = "write" THEN WriteError(o.key, o.cause) ELSE CloseError(o.key, o.cause)

\* How often e occurs in the sequence q.
Occurrences(q, e) == Cardinality({k \in 1..Len(q) : q[k] = e})

\* Nothing of the fan-out has happened for r: no goroutine, no key, no ctx.
NoWorkDone(r) ==
    /\ \A t \in Tasks :
          /\ tpc[r][t] = "unspawned"
          /\ tkey[r][t] = NoKey
          /\ outcome[r][t] = NoOutcome
    /\ wg[r] = 0
    /\ i[r] = 0
    /\ ctxDeadline[r] = -1
    /\ errs[r] = <<>>

(***************************************************************************)
(* C1: for every accepted request, once the summary is written,            *)
(* objects_written plus the number of entries of errors is the count that  *)
(* was asked for.                                                          *)
(***************************************************************************)
C1_WrittenPlusErrorsIsCount ==
    \A r \in Reqs :
       (AcceptedReq(r) /\ hpc[r] = "responded") =>
          /\ resp[r].summary
          /\ resp[r].objects_written + Len(resp[r].errors) = CountOf(r)

\* A summary of a request with one success and one failure.
C1_Witness ==
    \E r \in Reqs :
       /\ Summarised(r)
       /\ SucceededTasks(r) # {}
       /\ FailedTasks(r) # {}

(***************************************************************************)
(* C2: when the summary is written every goroutine of the request has      *)
(* ended with one outcome; errors holds the report of every failed         *)
(* goroutine (the text naming its key) exactly as often as there are       *)
(* failed goroutines with that report and nothing else; objects_written is *)
(* the number of goroutines whose write and close both succeeded.          *)
(***************************************************************************)
C2_ErrorsAreExactlyTheFailures ==
    \A r \in Reqs :
       Summarised(r) =>
          /\ \A t \in TasksOf(r) :
                /\ tpc[r][t] = "done"
                /\ outcome[r][t].kind \in {"success", "failure"}
                /\ outcome[r][t].key = tkey[r][t]
                /\ tkey[r][t] # NoKey
          /\ \A t \in FailedTasks(r) :
                Occurrences(resp[r].errors, ReportOf(outcome[r][t]))
                   = Cardinality({u \in FailedTasks(r) :
                                     ReportOf(outcome[r][u]) = ReportOf(outcome[r][t])})
          /\ \A k \in 1..Len(resp[r].errors) :
                \E t \in FailedTasks(r) : resp[r].errors[k] = ReportOf(outcome[r][t])
          /\ Len(resp[r].errors) = Cardinality(FailedTasks(r))
          /\ resp[r].objects_written = Cardinality(SucceededTasks(r))

\* Two goroutines with different keys failed, one at the write and one at the
\* close, and the second one's report arrived first.
C2_Witness ==
    \E r \in Reqs :
       /\ Summarised(r)
       /\ FailedTasks(r) = {1, 2}
       /\ tkey[r][1] # tkey[r][2]
       /\ outcome[r][1].stage = "close"
       /\ outcome[r][2].stage = "write"
       /\ resp[r].errors = <<ReportOf(outcome[r][2]), ReportOf(outcome[r][1])>>

(***************************************************************************)
(* C3: if no write and no close of a request failed, its summary has       *)
(* objects_written = count, no errors and status 200.                      *)
(***************************************************************************)
C3_ReliableBackendAllWritten ==
    \A r \in Reqs :
       (AcceptedReq(r) /\ hpc[r] = "responded" /\ FailedTasks(r) = {}) =>
          /\ resp[r].summary
          /\ resp[r].objects_written = CountOf(r)
          /\ resp[r].errors = <<>>
          /\ resp[r].status = StatusOK

\* A request for MaxCount objects, all of them written.
C3_Witness ==
    \E r \in Reqs :
       /\ Summarised(r)
       /\ CountOf(r) = MaxCount
       /\ SucceededTasks(r) = TasksOf(r)

(***************************************************************************)
(* C4: an accepted request is answered with the summary, with status 200   *)
(* exactly when no goroutine failed and 500 exactly when one did; with 500 *)
(* the summary still counts the successes and has one error per failure.   *)
(***************************************************************************)
C4_StatusTellsFailure ==
    \A r \in Reqs :
       (AcceptedReq(r) /\ hpc[r] = "responded") =>
          /\ resp[r].summary
          /\ resp[r].status \in {StatusOK, StatusInternalServerError}
          /\ resp[r].status = StatusOK <=> FailedTasks(r) = {}
          /\ resp[r].status = StatusInternalServerError <=> FailedTasks(r) # {}
          /\ resp[r].status = StatusInternalServerError =>
                /\ resp[r].objects_written = Cardinality(SucceededTasks(r))
                /\ Len(resp[r].errors) = Cardinality(FailedTasks(r))
                /\ SucceededTasks(r) \cup FailedTasks(r) = TasksOf(r)

\* Status 500 with exactly one failure and an object written.
C4_Witness ==
    \E r \in Reqs :
       /\ Summarised(r)
       /\ resp[r].status = StatusInternalServerError
       /\ Cardinality(FailedTasks(r)) = 1
       /\ resp[r].objects_written = 1

(***************************************************************************)
(* C5: a POST whose body does not decode, or whose number is zero or       *)
(* negative, is answered with 400 at once; no goroutine is spawned, no key *)
(* is generated and no storage call is made for it.                        *)
(***************************************************************************)
C5_BadBodyIs400 ==
    \A r \in Reqs :
       (/\ hpc[r] # "idle"
        /\ req[r].method = "POST"
        /\ Decode(req[r].body).err \/ Decode(req[r].body).Number <= 0) =>
          /\ hpc[r] = "responded"
          /\ resp[r].status = StatusBadRequest
          /\ ~resp[r].summary
          /\ NoWorkDone(r)

\* A POST with {"number": 0} was answered.
C5_Witness ==
    \E r \in Reqs :
       /\ hpc[r] = "responded"
       /\ req[r].method = "POST"
       /\ req[r].body.member = "int"
       /\ req[r].body.int = 0
       /\ resp[r].status = StatusBadRequest

(***************************************************************************)
(* C6: a request whose method is not POST is answered with 405 whatever    *)
(* its body; no goroutine is spawned and no storage call is made for it.   *)
(***************************************************************************)
C6_NotPostIs405 ==
    \A r \in Reqs :
       (hpc[r] # "idle" /\ req[r].method # "POST") =>
          /\ hpc[r] = "responded"
          /\ resp[r].status = StatusMethodNotAllowed
          /\ ~resp[r].summary
          /\ NoWorkDone(r)

\* A PUT with a body that a POST would have been accepted with was answered.
C6_Witness ==
    \E r \in Reqs :
       /\ hpc[r] = "responded"
       /\ req[r].method = "PUT"
       /\ req[r].body.member = "int"
       /\ req[r].body.int = MaxCount
       /\ resp[r].status = StatusMethodNotAllowed

(***************************************************************************)
(* C7: under fair scheduling and a clock that advances, every accepted     *)
(* request is eventually answered, whether its goroutines fail at once,    *)
(* succeed, or stay in a storage call until the deadline of ctx: every     *)
(* behaviour reaches a point after which no handler is between its         *)
(* acceptance of a request and its response (a response is never taken     *)
(* back and only finitely many requests arrive).                           *)
(***************************************************************************)
C7_AcceptedIsAnswered ==
    <>[](\A r \in Reqs : hpc[r] \in {"idle", "responded"})

\* A request was answered all of whose goroutines were still running when
\* the deadline passed, each of them failing with the error of ctx.
C7_Witness ==
    \E r \in Reqs :
       /\ Summarised(r)
       /\ CountOf(r) = MaxCount
       /\ late[r] = TasksOf(r)
       /\ \A t \in TasksOf(r) : outcome[r][t].cause = "context deadline exceeded"

(***************************************************************************)
(* C8 as stated: every goroutine that was running when the deadline of     *)
(* ctx passed is reported as a failure, with one entry in errors, and is   *)
(* not counted in objects_written.                                         *)
(***************************************************************************)
C8_LateTaskIsFailure ==
    \A r \in Reqs :
       Summarised(r) =>
          \A t \in late[r] :
             /\ outcome[r][t].kind = "failure"
             /\ Occurrences(resp[r].errors, ReportOf(outcome[r][t])) >= 1

(***************************************************************************)
(* C8 as amended: every goroutine whose write or close returned the error  *)
(* of ctx is reported like any other failure: its report is in errors as   *)
(* often as there are failed goroutines with that report, the failures of  *)
(* all causes together make up errors, and objects_written counts only the *)
(* goroutines that succeeded, which can include one that was still running *)
(* when the deadline passed.                                               *)
(***************************************************************************)
C8_DeadlineFailureIsOrdinary ==
    \A r \in Reqs :
       Summarised(r) =>
          /\ \A t \in TasksOf(r) :
                outcome[r][t].cause = "context deadline exceeded" =>
                   /\ outcome[r][t].kind = "failure"
                   /\ now >= ctxDeadline[r]
                   /\ Occurrences(resp[r].errors, ReportOf(outcome[r][t]))
                         = Cardinality({u \in FailedTasks(r) :
                                           ReportOf(outcome[r][u]) = ReportOf(outcome[r][t])})
          /\ Len(resp[r].errors) = Cardinality(FailedTasks(r))
          /\ resp[r].objects_written = CountOf(r) - Cardinality(FailedTasks(r))
          /\ FailedTasks(r) # {} => resp[r].status = StatusInternalServerError

\* One goroutine failed at the close with the error of ctx, a sibling with an
\* error of the backend.
C8_Witness ==
    \E r \in Reqs :
       /\ Summarised(r)
       /\ \E t \in late[r] :
             /\ outcome[r][t].stage = "close"
             /\ outcome[r][t].cause = "context deadline exceeded"
       /\ \E u \in FailedTasks(r) : outcome[r][u].cause = "backend error"

(***************************************************************************)
(* C9: ctx is cancelled only after every goroutine of the request has      *)
(* finished, and a goroutine sees the error of ctx only when the deadline  *)
(* has passed: the failure of a goroutine never ends the work of another.  *)
(***************************************************************************)
C9_FailureDoesNotAbortSiblings ==
    \A r \in Reqs :
       /\ cancelled[r] => \A t \in TasksOf(r) : tpc[r][t] = "done"
       /\ \A t \in Tasks :
             outcome[r][t].cause = "context deadline exceeded" => now >= ctxDeadline[r]
       /\ CtxDone(r) =>
             \/ now >= ctxDeadline[r]
             \/ hpc[r] = "responded"

\* The first goroutine has failed on the backend and is done, ctx is not
\* done, and its sibling has succeeded after that and is counted.
C9_Witness ==
    \E r \in Reqs :
       /\ Summarised(r)
       /\ now < ctxDeadline[r]
       /\ outcome[r][1].kind = "failure"
       /\ outcome[r][1].cause = "backend error"
       /\ outcome[r][2].kind = "success"
       /\ resp[r].objects_written = 1

(***************************************************************************)
(* C10: a handler is called only while main serves; main starts the        *)
(* listener only with a client and a non-empty bucket name; when the       *)
(* client cannot be made or the bucket name is missing the process has     *)
(* exited without a listener and without a request; the port is PORT, or   *)
(* 8080 when PORT is not set.                                              *)
(***************************************************************************)
ListenerStarted == mpc = "serving" \/ fatal = "listen"

C10_ServesOnlyWhenConfigured ==
    /\ (\E r \in Reqs : hpc[r] # "idle") => mpc = "serving"
    /\ (mpc = "listen" \/ ListenerStarted) =>
          /\ gcsClient = "client"
          /\ bucketName # ""
          /\ bucketName = Getenv(env, "GCS_BUCKET_NAME")
          /\ port = (IF Getenv(env, "PORT") = "" THEN "8080" ELSE Getenv(env, "PORT"))
    /\ (mpc \notin {"load", "client", "bucket"} /\ Getenv(env, "GCS_BUCKET_NAME") = "") =>
          /\ mpc = "fatal"
          /\ fatal \in {"dotenv", "client", "bucket"}
    /\ fatal \in {"dotenv", "client", "bucket"} =>
          /\ mpc = "fatal"
          /\ ~ListenerStarted
          /\ \A r \in Reqs : hpc[r] = "idle"
    /\ fatal = "client" => gcsClient = "nil"
    /\ fatal = "bucket" => bucketName = ""

\* A request was answered by a process started without PORT.
C10_Witness ==
    /\ mpc = "serving"
    /\ Getenv(env, "PORT") = ""
    /\ port = "8080"
    /\ \E r \in Reqs : hpc[r] = "responded"

(***************************************************************************)
(* C11: errs has capacity count and every goroutine sends on it at most    *)
(* once; so it never holds more than count errors, and whenever a          *)
(* goroutine is in a call whose failure it would report, errs has room for *)
(* the report: no send blocks, even when all goroutines fail before the    *)
(* handler has read anything.                                              *)
(***************************************************************************)
C11_ReportNeverBlocks ==
    \A r \in Reqs :
       AcceptedReq(r) =>
          /\ errsCap[r] = CountOf(r)
          /\ Len(errs[r]) <= CountOf(r)
          /\ \A t \in Tasks : sent[r][t] <= 1
          /\ \A t \in TasksOf(r) :
                tpc[r][t] \in {"write", "close"} =>
                   /\ ~errsClosed[r]
                   /\ Len(errs[r]) < errsCap[r]

\* All MaxCount goroutines have failed and their errors fill errs while the
\* handler has not yet come back from wg.Wait().
C11_Witness ==
    \E r \in Reqs :
       /\ CountOf(r) = MaxCount
       /\ hpc[r] = "spawn"
       /\ Len(errs[r]) = MaxCount
       /\ \A t \in TasksOf(r) : sent[r][t] = 1

(***************************************************************************)
(* C12: the handler is past wg.Wait() (it closes errs, reads it, answers)  *)
(* only when the loop has spawned all count goroutines and every one of    *)
(* them has returned; errs is closed before the first error is read; no    *)
(* goroutine sends on the closed channel.                                  *)
(***************************************************************************)
C12_CloseAfterAllTasks ==
    /\ ~crashed
    /\ \A r \in Reqs :
          AcceptedReq(r) =>
             /\ (hpc[r] \in {"close", "collect", "responded"} \/ errsClosed[r]) =>
                   /\ i[r] = CountOf(r)
                   /\ wg[r] = 0
                   /\ \A t \in TasksOf(r) : tpc[r][t] = "done"
                   /\ Len(arrivals[r]) = Cardinality(FailedTasks(r))
             /\ errsClosed[r] <=> hpc[r] \in {"collect", "responded"}
             /\ errorMessages[r] # <<>> => errsClosed[r]

\* errs is closed with the errors of MaxCount goroutines in it, none read.
C12_Witness ==
    \E r \in Reqs :
       /\ CountOf(r) = MaxCount
       /\ errsClosed[r]
       /\ hpc[r] = "collect"
       /\ Len(errs[r]) = MaxCount
       /\ errorMessages[r] = <<>>

(***************************************************************************)
(* C13: a goroutine whose write failed has sent exactly one error, the     *)
(* write error naming its key, and has then called obj.Close() once;       *)
(* whatever that close returns, the goroutine sends nothing more, is never *)
(* a success, and the summary has its error once and does not count it.    *)
(***************************************************************************)
C13_WriteFailureReportedOnce ==
    \A r \in Reqs : \A t \in Tasks :
       outcome[r][t].stage = "write" =>
          /\ outcome[r][t].kind = "failure"
          /\ outcome[r][t].key = tkey[r][t]
          /\ tpc[r][t] \in {"bclose", "done"}
          /\ sent[r][t] = 1
          /\ closes[r][t] = 1
          /\ Occurrences(arrivals[r], ReportOf(outcome[r][t]))
                = Cardinality({u \in Tasks : /\ outcome[r][u].kind = "failure"
                                             /\ ReportOf(outcome[r][u]) = ReportOf(outcome[r][t])})
          /\ ReportOf(outcome[r][t]) = WriteError(tkey[r][t], outcome[r][t].cause)
          /\ Summarised(r) =>
                /\ Occurrences(resp[r].errors, ReportOf(outcome[r][t]))
                      = Occurrences(arrivals[r], ReportOf(outcome[r][t]))
                /\ resp[r].objects_written <= CountOf(r) - 1

\* The only goroutine of a request failed at the write, its best-effort close
\* has returned, and the summary has exactly its error.
C13_Witness ==
    \E r \in Reqs :
       /\ Summarised(r)
       /\ CountOf(r) = 1
       /\ outcome[r][1].stage = "write"
       /\ tpc[r][1] = "done"
       /\ closes[r][1] = 1
       /\ resp[r].errors = <<WriteError(tkey[r][1], outcome[r][1].cause)>>
       /\ resp[r].objects_written = 0

(***************************************************************************)
(* C14: a goroutine whose write succeeded and whose obj.Close() returned   *)
(* an error has sent exactly one error, the close error naming its key,    *)
(* and has returned; the summary has that error and does not count the     *)
(* goroutine in objects_written, whether or not the backend holds the      *)
(* object.                                                                 *)
(***************************************************************************)
C14_CloseFailureReportedOnce ==
    \A r \in Reqs : \A t \in Tasks :
       outcome[r][t].stage = "close" =>
          /\ outcome[r][t].kind = "failure"
          /\ outcome[r][t].key = tkey[r][t]
          /\ tpc[r][t] = "done"
          /\ sent[r][t] = 1
          /\ closes[r][t] = 1
          /\ ReportOf(outcome[r][t]) = CloseError(tkey[r][t], outcome[r][t].cause)
          /\ Occurrences(arrivals[r], ReportOf(outcome[r][t]))
                = Cardinality({u \in Tasks : /\ outcome[r][u].kind = "failure"
                                             /\ ReportOf(outcome[r][u]) = ReportOf(outcome[r][t])})
          /\ Summarised(r) =>
                /\ Occurrences(resp[r].errors, ReportOf(outcome[r][t]))
                      = Occurrences(arrivals[r], ReportOf(outcome[r][t]))
                /\ resp[r].objects_written = Cardinality(TasksOf(r) \ FailedTasks(r))
                /\ t \in FailedTasks(r)

\* The only goroutine of a request got an error from obj.Close() although the
\* backend committed the object: the summary counts nothing and has the error.
C14_Witness ==
    \E r \in Reqs :
       /\ Summarised(r)
       /\ CountOf(r) = 1
       /\ outcome[r][1].stage = "close"
       /\ stored[r][1]
       /\ resp[r].objects_written = 0
       /\ resp[r].errors = <<CloseError(tkey[r][1], outcome[r][1].cause)>>

\* The goroutines of r whose upload the backend committed, and the objects
\* the bucket holds from them: one object per key.
CommittedTasks(r) == {t \in TasksOf(r) : stored[r][t]}
ObjectsInBackend(r) == {tkey[r][t] : t \in CommittedTasks(r)}

(***************************************************************************)
(* C15 as stated: at the response, objects_written is at most the number   *)
(* of objects of the request in the backend.  It fails when rand.Read      *)
(* returns an error: the goroutines of a request that make their key in    *)
(* the same second all get the key of the zero bytes, and two of them that *)
(* both succeed leave one object in the bucket and objects_written = 2.    *)
(* Where rand.Read ends the program instead, no response is produced.      *)
(***************************************************************************)
C15_WrittenAtMostObjects ==
    \A r \in Reqs :
       Summarised(r) => resp[r].objects_written <= Cardinality(ObjectsInBackend(r))

(***************************************************************************)
(* C16: the errors of the summary are in the order in which the goroutines *)
(* sent them on errs: what the handler has read from errs followed by what *)
(* errs still holds is at all times the sequence of sends, and the summary *)
(* has that sequence.  The order need not be the order of spawning.        *)
(***************************************************************************)
C16_ErrorsInArrivalOrder ==
    ~crashed =>
       \A r \in Reqs :
          /\ errorMessages[r] \o errs[r] = arrivals[r]
          /\ Summarised(r) => resp[r].errors = arrivals[r]

\* Both goroutines failed at the write, the one spawned second sent first,
\* and the summary lists its error first.
C16_Witness ==
    \E r \in Reqs :
       /\ Summarised(r)
       /\ CountOf(r) = 2
       /\ outcome[r][1].stage = "write"
       /\ outcome[r][2].stage = "write"
       /\ ReportOf(outcome[r][1]) # ReportOf(outcome[r][2])
       /\ arrivals[r] = <<ReportOf(outcome[r][2]), ReportOf(outcome[r][1])>>
       /\ resp[r].errors = arrivals[r]

(***************************************************************************)
(* C17 as stated: the elapsed time is taken after the handler has          *)
(* collected the outcome of the last goroutine, so whenever it is set the  *)
(* handler has read every error that was sent.  The code takes it before   *)
(* the loop over errs.                                                     *)
(***************************************************************************)
C17_StampAfterCollection ==
    \A r \in Reqs : timeTaken[r] >= 0 => errorMessages[r] = arrivals[r]

(***************************************************************************)
(* C17 amended: startTime is taken once, before any goroutine of the       *)
(* request is spawned; the elapsed time is taken once, as now - startTime, *)
(* after wg.Wait() has returned with every goroutine of the request done   *)
(* and errs closed, and before the handler receives anything from errs;    *)
(* the summary reports that value.                                         *)
(***************************************************************************)
C17_StampsAroundTheTasks ==
    [][\A r \in Reqs :
          /\ startTime'[r] # startTime[r] =>
                /\ startTime[r] = -1
                /\ startTime'[r] = now
                /\ i'[r] = 0
                /\ \A t \in Tasks : tpc'[r][t] = "unspawned"
          /\ timeTaken'[r] # timeTaken[r] =>
                /\ timeTaken[r] = -1
                /\ timeTaken'[r] = now - startTime[r]
                /\ i[r] = CountOf(r)
                /\ wg[r] = 0
                /\ \A t \in TasksOf(r) : tpc[r][t] = "done"
                /\ errsClosed'[r]
                /\ errorMessages'[r] = <<>>
                /\ errs'[r] = arrivals[r]
          /\ (resp'[r] # resp[r] /\ resp'[r].summary) =>
                /\ timeTaken[r] >= 0
                /\ resp'[r].time_taken = timeTaken[r]
      ]_vars

\* A summary with one error that the handler received from errs after it had
\* taken the elapsed time, one tick after the start; the clock has moved on
\* since the elapsed time was taken.
C17_Witness ==
    \E r \in Reqs :
       /\ Summarised(r)
       /\ resp[r].time_taken = TickStep
       /\ Len(resp[r].errors) = 1
       /\ now - startTime[r] > resp[r].time_taken

(***************************************************************************)
(* C18: nothing is rolled back.  An object the backend committed stays     *)
(* committed in every later step, whatever happens to sibling goroutines,  *)
(* the deadline or the response; a goroutine that succeeded has its object *)
(* committed; the only step that changes what the backend holds is the     *)
(* return of a goroutine's own obj.Close(); and a step of the handler      *)
(* makes no storage call: it opens no writer, closes none, commits and     *)
(* removes nothing.                                                        *)
(***************************************************************************)
C18_NoRollback ==
    [][\A r \in Reqs :
          /\ \A t \in Tasks :
                /\ stored[r][t] => stored'[r][t]
                /\ outcome'[r][t].kind = "success" => stored'[r][t]
                /\ stored'[r][t] # stored[r][t] =>
                      tpc[r][t] = "close" /\ tpc'[r][t] \in {"log", "done"}
          /\ hpc'[r] # hpc[r] =>
                /\ stored' = stored
                /\ opened' = opened
                /\ closes' = closes
      ]_vars

\* The summary reports a failure by the deadline of the second goroutine,
\* and the object of the first, which succeeded, is in the backend.
C18_Witness ==
    \E r \in Reqs :
       /\ Summarised(r)
       /\ resp[r].status = StatusInternalServerError
       /\ outcome[r][1].kind = "success"
       /\ stored[r][1]
       /\ outcome[r][2].kind = "failure"
       /\ outcome[r][2].cause = "context deadline exceeded"

(***************************************************************************)
(* C19: every goroutine opens one writer and calls obj.Close() on it once, *)
(* on the path of a failed write and on the path of a successful write; no *)
(* writer is closed twice or closed without having been opened, a          *)
(* goroutine that is done has closed its writer, and when the handler has  *)
(* responded every goroutine of the request has opened one writer and      *)
(* closed it.                                                              *)
(***************************************************************************)
C19_OneStreamClosedOnce ==
    \A r \in Reqs : \A t \in Tasks :
       /\ opened[r][t] <= 1
       /\ closes[r][t] <= opened[r][t]
       /\ tpc[r][t] \in {"unspawned", "start"} => opened[r][t] = 0
       /\ tpc[r][t] = "write" => opened[r][t] = 1 /\ closes[r][t] = 0
       /\ tpc[r][t] \in {"close", "bclose", "log", "done"} =>
             opened[r][t] = 1 /\ closes[r][t] = 1
       /\ (hpc[r] = "responded" /\ AcceptedReq(r) /\ t \in TasksOf(r)) =>
             /\ tpc[r][t] = "done"
             /\ opened[r][t] = 1
             /\ closes[r][t] = 1

\* A request answered after one goroutine went the way of the failed write
\* and the other the way of the successful write: each writer closed once.
C19_Witness ==
    \E r \in Reqs :
       /\ Summarised(r)
       /\ CountOf(r) = 2
       /\ outcome[r][1].stage = "write"
       /\ outcome[r][2].kind = "success"
       /\ \A t \in TasksOf(r) : opened[r][t] = 1 /\ closes[r][t] = 1

\* What request r holds and reports comes from its own goroutines only.
OwnTasksOnly(r) ==
    /\ wg[r] = Cardinality({t \in Tasks : tpc[r][t] \notin {"unspawned", "done"}})
    /\ Len(errs[r]) <= Number[r]
    /\ errorMessages[r] \o errs[r] = arrivals[r]
    /\ Len(arrivals[r]) = Cardinality({t \in Tasks : outcome[r][t].kind = "failure"})
    /\ \A k \in 1..Len(arrivals[r]) :
          \E t \in Tasks : /\ outcome[r][t].kind = "failure"
                           /\ arrivals[r][k] = ReportOf(outcome[r][t])
    /\ \A t \in Tasks :
          outcome[r][t].cause = "context deadline exceeded" => now >= ctxDeadline[r]
    /\ CtxDone(r) => (now >= ctxDeadline[r] \/ hpc[r] = "responded")
    /\ Summarised(r) =>
          /\ resp[r].objects_written = Cardinality(SucceededTasks(r))
          /\ resp[r].errors = arrivals[r]
          /\ resp[r].objects_written + Len(resp[r].errors) = CountOf(r)

(***************************************************************************)
(* C20: two requests handled at the same time are isolated.  In every      *)
(* state of every interleaving of their handlers and goroutines, each      *)
(* request's WaitGroup counts its own running goroutines, its errs and     *)
(* errorMessages hold the errors of its own failed goroutines and no       *)
(* others, its ctx is done only by its own deadline or its own handler's   *)
(* return, a goroutine has the error of ctx only after the deadline of its *)
(* own request, and the summary of each request counts its own goroutines  *)
(* and lists their errors.                                                 *)
(***************************************************************************)
C20_RequestsIsolated ==
    /\ ~crashed
    /\ \A r \in Reqs : OwnTasksOnly(r)

\* The deadline of the first request has passed and its goroutine has failed
\* with the error of ctx; the second request, accepted later, has started its
\* goroutine after that deadline and is answered before its own deadline
\* with one object written.
C20_Witness ==
    /\ Summarised(1)
    /\ outcome[1][1].cause = "context deadline exceeded"
    /\ resp[1].status = StatusInternalServerError
    /\ Summarised(2)
    /\ ctxDeadline[1] < ctxDeadline[2]
    /\ tkey[2][1][1] >= ctxDeadline[1]
    /\ now < ctxDeadline[2]
    /\ resp[2].status = StatusOK
    /\ resp[2].objects_written = 1
====
